---- MODULE Spec2Model ----
(***************************************************************************)
(* Model of the messages-worker SDK client (package sdk): client           *)
(* construction, the transport wrapper doRequest, the response decoder     *)
(* parseResponse, and the message, worker and health operations.           *)
(*                                                                         *)
(* A Go pointer is a sequence: <<>> is nil, <<v>> points at v.             *)
(* A Go error is a record with a field kind; kind "nil" is the nil error.  *)
(* An API error is the only error of dynamic type *APIError.               *)
(***************************************************************************)
EXTENDS Integers, Sequences, FiniteSets, TLC

(***************************************************************************)
(* TLC keeps the fields of a record in the order in which their names      *)
(* first appear in the module, and brings a record written in another      *)
(* order into that order in place, which is unsafe for a value shared by   *)
(* its workers.  This definition fixes the order, and every record         *)
(* constructor of the module lists its fields in it.                       *)
(***************************************************************************)
FieldOrder ==
    [kind |-> 0, msg |-> 0, cause |-> 0,
     ID |-> 0, QueueName |-> 0, Status |-> 0, StartedAt |-> 0,
     StatusCode |-> 0, Message |-> 0,
     ItemID |-> 0, Priority |-> 0, Topic |-> 0, CallbackURL |-> 0, ObjectBody |-> 0,
     Count |-> 0, Messages |-> 0, QueueDepth |-> 0, Workers |-> 0, Action |-> 0,
     TotalRemoved |-> 0, Errors |-> 0,
     TotalWorkers |-> 0, LowPriority |-> 0, MediumPriority |-> 0,
     HighPriority |-> 0, AllWorkers |-> 0,
     Body |-> 0, BaseURL |-> 0, Timeout |-> 0,
     baseURL |-> 0, httpClient |-> 0, timeout |-> 0,
     t |-> 0, v |-> 0, k |-> 0, of |-> 0, key |-> 0, type |-> 0,
     raw |-> 0, json |-> 0, ok |-> 0, doc |-> 0, val |-> 0,
     method |-> 0, url |-> 0, body |-> 0, contentType |-> 0,
     name |-> 0, arg |-> 0, op |-> 0,
     id |-> 0, status |-> 0, itemId |-> 0, item_id |-> 0, priority |-> 0,
     topic |-> 0, callback_url |-> 0, object_body |-> 0, messages |-> 0,
     total_workers |-> 0, low_priority |-> 0, medium_priority |-> 0,
     high_priority |-> 0, count |-> 0, queue_depth |-> 0, total_removed |-> 0,
     req |-> 0, set |-> 0, ctx |-> 0, outcome |-> 0, err |-> 0, read |-> 0]

VARIABLES
    config,      \* the caller's *Config object (heap cell NewClient may write)
    ctor,        \* which constructor ran and the argument value it was given
    client,      \* the Client: <<>> before construction
    pc,          \* per caller: "idle", "waiting", "reading", "done"
    call,        \* per caller: the operation in progress and its arguments
    sent,        \* per caller: requests handed to httpClient.Do by this call
    opened,      \* per caller: response bodies obtained by this call
    closed,      \* per caller: resp.Body.Close() calls made by this call
    outcome,     \* per caller: what httpClient.Do returned to this call
    ret,         \* per caller: the value and error returned by the call
    lastHealth,  \* the caller's latest completed CheckHealth call, while it probes health
    lastStatus   \* the status the caller's previous fetch returned, while it goes on fetching

vars == <<config, ctor, client, pc, call, sent, opened, closed,
          outcome, ret, lastHealth, lastStatus>>

---------------------------------------------------------------------------
(* Bounds *)

\* Go's int is modelled as the range IntMin..IntMax with wrapping negation
IntMax == 2
IntMin == -(IntMax + 1)
Ints == IntMin..IntMax

Callers == {"c1"}

---------------------------------------------------------------------------
(* Program constants *)

PriorityLow == "low"
PriorityMedium == "medium"
PriorityHigh == "high"
TopicPullRequests == "pullrequests"

DefaultBaseURL == "http://localhost:8083"
DefaultConfigTimeout == 30
FallbackTimeout == 30
StatusOK == 200
ErrorStatusFloor == 400

---------------------------------------------------------------------------
(* Inputs the environment and the callers draw from *)

\* a base URL on which url.Parse fails ("missing protocol scheme")
MalformedURL == ":bad"

Configs ==
    { <<>>,
      <<[BaseURL |-> DefaultBaseURL, Timeout |-> 0]>>,
      <<[BaseURL |-> "https://example.com", Timeout |-> 60]>>,
      <<[BaseURL |-> "https://example.com", Timeout |-> -1]>>,
      <<[BaseURL |-> MalformedURL, Timeout |-> 5]>> }

Priorities == {"low", "medium", "high", "", "invalid"}

\* ObjectBody is interface{}: "map" is a value json.Marshal accepts,
\* "chan" one it rejects (unsupported type)
MessageRequests ==
    { [ItemID |-> "pr-1", Priority |-> "invalid", Topic |-> TopicPullRequests,
       CallbackURL |-> "https://cb", ObjectBody |-> "map"],
      [ItemID |-> "pr-2", Priority |-> PriorityHigh, Topic |-> TopicPullRequests,
       CallbackURL |-> "https://cb", ObjectBody |-> "chan"] }

MessageRequestPtrs == {<<>>} \cup { <<m>> : m \in MessageRequests }

BulkRequestPtrs ==
    {<<>>, <<[Messages |-> <<>>]>>}
        \cup { <<[Messages |-> <<m>>]>> : m \in MessageRequests }

ObjectBodies == {"map", "chan"}

Contexts == {"live", "cancelled"}

Statuses == {200, 201, 304, 400, 500}

---------------------------------------------------------------------------
(* JSON documents.  A parsed JSON value is a tagged record.                *)

JNull == [t |-> "null"]
JStr(s) == [t |-> "string", v |-> s]
JNum(n) == [t |-> "number", v |-> n]
JArr(s) == [t |-> "array", v |-> s]
JObj(f) == [t |-> "object", v |-> f]

\* A response body: its raw text, and its syntax tree when the text is JSON
MessageBody ==
    [raw |-> "{\"id\":\"msg-123\",\"status\":\"published\",\"itemId\":\"test-123\",\"priority\":\"high\",\"topic\":\"pullrequests\"}",
     json |-> TRUE,
     doc |-> JObj([id |-> JStr("msg-123"), status |-> JStr("published"),
                   itemId |-> JStr("test-123"), priority |-> JStr("high"),
                   topic |-> JStr("pullrequests")])]

\* MessageResponse values a server may answer with
MessageResponses ==
    [ID : {"msg-123", ""}, Status : {"published"}, ItemID : {"test-123", "pr-1"},
     Priority : {"high", "low"}, Topic : {"pullrequests"}]

\* json.NewEncoder(w).Encode(response) of a MessageResponse on the server
EncodeMessageResponse(m) ==
    [raw |-> "{\"id\":\"" \o m.ID \o "\",\"status\":\"" \o m.Status
                \o "\",\"itemId\":\"" \o m.ItemID \o "\",\"priority\":\""
                \o m.Priority \o "\",\"topic\":\"" \o m.Topic \o "\"}",
     json |-> TRUE,
     doc |-> JObj([id |-> JStr(m.ID), status |-> JStr(m.Status),
                   itemId |-> JStr(m.ItemID), priority |-> JStr(m.Priority),
                   topic |-> JStr(m.Topic)])]

StatusBody ==
    [raw |-> "{\"total_workers\":2,\"low_priority\":{\"count\":0},\"medium_priority\":{\"count\":1},\"high_priority\":{\"count\":-1,\"queue_depth\":1}}",
     json |-> TRUE,
     doc |-> JObj([total_workers |-> JNum(2),
                   low_priority |-> JObj([count |-> JNum(0)]),
                   medium_priority |-> JObj([count |-> JNum(1)]),
                   high_priority |-> JObj([count |-> JNum(-1),
                                           queue_depth |-> JNum(1)])])]

\* a second status document, every count different from StatusBody's
BusyStatusBody ==
    [raw |-> "{\"total_workers\":1,\"low_priority\":{\"count\":1},\"medium_priority\":{\"count\":2},\"high_priority\":{\"count\":0}}",
     json |-> TRUE,
     doc |-> JObj([total_workers |-> JNum(1),
                   low_priority |-> JObj([count |-> JNum(1)]),
                   medium_priority |-> JObj([count |-> JNum(2)]),
                   high_priority |-> JObj([count |-> JNum(0)])])]

MistypedBody ==
    [raw |-> "{\"id\":5,\"status\":5,\"total_workers\":\"x\",\"count\":\"x\",\"total_removed\":\"x\"}",
     json |-> TRUE,
     doc |-> JObj([id |-> JNum(5), status |-> JNum(5),
                   total_workers |-> JStr("x"), count |-> JStr("x"),
                   total_removed |-> JStr("x")])]

TextBody ==
    [raw |-> "Service Unavailable", json |-> FALSE, doc |-> JNull]

Bodies ==
    {MessageBody, StatusBody, BusyStatusBody, MistypedBody, TextBody}
        \cup { EncodeMessageResponse(m) : m \in MessageResponses }

---------------------------------------------------------------------------
(* Errors *)

NoError == [kind |-> "nil"]

\* fmt.Errorf without %w; kind names the class of the site that built it
Errorf(kind, msg) == [kind |-> kind, msg |-> msg]

\* fmt.Errorf("...: %w", err)
Wrapf(kind, msg, cause) == [kind |-> kind, msg |-> msg, cause |-> cause]

NewAPIError(statusCode, message) ==
    [kind |-> "api", StatusCode |-> statusCode, Message |-> message]

\* mutant: every non-nil error passes for an API error
IsAPIError_AnyError(err) == err.kind # "nil"

\* IsAPIError: the type assertion err.(*APIError); kind is the dynamic type
IsAPIError(err) == err.kind = "api"

---------------------------------------------------------------------------
(* encoding/json: struct tags and Unmarshal *)

TString == [k |-> "string", of |-> ""]
TInt == [k |-> "int", of |-> ""]
TStruct(name) == [k |-> "struct", of |-> name]
TSlice(name) == [k |-> "slice", of |-> name]

Tag(key, type) == [key |-> key, type |-> type]

\* mutant: the item identifier is read from the key the request uses
MessageResponseFields_SnakeCase ==
    [ID |-> Tag("id", TString), Status |-> Tag("status", TString),
     ItemID |-> Tag("item_id", TString), Priority |-> Tag("priority", TString),
     Topic |-> Tag("topic", TString)]

MessageResponseFields ==
    [ID |-> Tag("id", TString), Status |-> Tag("status", TString),
     ItemID |-> Tag("itemId", TString), Priority |-> Tag("priority", TString),
     Topic |-> Tag("topic", TString)]

BulkMessageResponseFields ==
    [Status |-> Tag("status", TString), Count |-> Tag("count", TInt),
     Messages |-> Tag("messages", TSlice("MessageResponse"))]

WorkerInfoFields ==
    [ID |-> Tag("id", TString), QueueName |-> Tag("queue_name", TString),
     Status |-> Tag("status", TString), StartedAt |-> Tag("started_at", TString)]

PriorityWorkerInfoFields ==
    [Count |-> Tag("count", TInt), QueueDepth |-> Tag("queue_depth", TInt),
     Workers |-> Tag("workers", TSlice("WorkerInfo"))]

WorkerStatusResponseFields ==
    [TotalWorkers |-> Tag("total_workers", TInt),
     LowPriority |-> Tag("low_priority", TStruct("PriorityWorkerInfo")),
     MediumPriority |-> Tag("medium_priority", TStruct("PriorityWorkerInfo")),
     HighPriority |-> Tag("high_priority", TStruct("PriorityWorkerInfo")),
     AllWorkers |-> Tag("all_workers", TSlice("WorkerInfo"))]

ScaleWorkersResponseFields ==
    [Status |-> Tag("status", TString), Message |-> Tag("message", TString),
     Priority |-> Tag("priority", TString), Count |-> Tag("count", TInt),
     Action |-> Tag("action", TString)]

RemoveAllWorkersResponseFields ==
    [Status |-> Tag("status", TString), Message |-> Tag("message", TString),
     TotalRemoved |-> Tag("total_removed", TInt),
     Errors |-> Tag("errors", TSlice("string"))]

StructFields(name) ==
    CASE name = "MessageResponse" -> MessageResponseFields
      [] name = "BulkMessageResponse" -> BulkMessageResponseFields
      [] name = "WorkerInfo" -> WorkerInfoFields
      [] name = "PriorityWorkerInfo" -> PriorityWorkerInfoFields
      [] name = "WorkerStatusResponse" -> WorkerStatusResponseFields
      [] name = "ScaleWorkersResponse" -> ScaleWorkersResponseFields
      [] name = "RemoveAllWorkersResponse" -> RemoveAllWorkersResponseFields

ElemType(name) ==
    IF name = "string" THEN TString ELSE TStruct(name)

RECURSIVE Zero(_)
\* the Go zero value of a type
Zero(type) ==
    CASE type.k = "string" -> ""
      [] type.k = "int" -> 0
      [] type.k = "slice" -> <<>>
      [] type.k = "struct" ->
            LET fs == StructFields(type.of)
            IN [f \in DOMAIN fs |-> Zero(fs[f].type)]

RECURSIVE Decode(_, _)
\* json.Unmarshal of one JSON value into a Go value of the given type:
\* null leaves the zero value, a JSON value of the wrong kind or a number
\* outside int is an UnmarshalTypeError, unknown keys are ignored, absent
\* keys leave the zero value
Decode(j, type) ==
    IF j.t = "null" THEN [ok |-> TRUE, val |-> Zero(type)]
    ELSE CASE type.k = "string" ->
                IF j.t = "string" THEN [ok |-> TRUE, val |-> j.v]
                ELSE [ok |-> FALSE, val |-> ""]
           [] type.k = "int" ->
                IF j.t = "number" /\ j.v \in Ints THEN [ok |-> TRUE, val |-> j.v]
                ELSE [ok |-> FALSE, val |-> 0]
           [] type.k = "slice" ->
                IF j.t = "array"
                THEN LET es == [i \in 1..Len(j.v) |-> Decode(j.v[i], ElemType(type.of))]
                     IN [ok |-> \A i \in 1..Len(j.v) : es[i].ok,
                         val |-> [i \in 1..Len(j.v) |-> es[i].val]]
                ELSE [ok |-> FALSE, val |-> <<>>]
           [] type.k = "struct" ->
                IF j.t = "object"
                THEN LET fs == StructFields(type.of)
                         ds == [f \in DOMAIN fs |->
                                  IF fs[f].key \in DOMAIN j.v
                                  THEN Decode(j.v[fs[f].key], fs[f].type)
                                  ELSE [ok |-> TRUE, val |-> Zero(fs[f].type)]]
                     IN [ok |-> \A f \in DOMAIN fs : ds[f].ok,
                         val |-> [f \in DOMAIN fs |-> ds[f].val]]
                ELSE [ok |-> FALSE, val |-> Zero(type)]

\* mutant: a value of the wrong JSON kind is skipped instead of reported
Unmarshal_SyntaxOnly(body, shape) ==
    IF ~body.json THEN [ok |-> FALSE, val |-> Zero(TStruct(shape))]
    ELSE [ok |-> TRUE, val |-> Decode(body.doc, TStruct(shape)).val]

\* json.Unmarshal(body, &target): a syntax error when the text is not JSON
Unmarshal(body, shape) ==
    IF ~body.json THEN [ok |-> FALSE, val |-> Zero(TStruct(shape))]
    ELSE Decode(body.doc, TStruct(shape))

\* json.Marshal of a MessageRequest: the tags name the keys; an ObjectBody
\* of an unsupported type makes Marshal fail
MarshalMessageRequest(m) ==
    [ok |-> m.ObjectBody # "chan",
     doc |-> [item_id |-> m.ItemID, priority |-> m.Priority, topic |-> m.Topic,
              callback_url |-> m.CallbackURL, object_body |-> m.ObjectBody]]

\* json.Marshal of the body handed to doRequest
Marshal(v) ==
    IF "Messages" \in DOMAIN v
    THEN LET ms == [i \in 1..Len(v.Messages) |-> MarshalMessageRequest(v.Messages[i])]
         IN [ok |-> \A i \in 1..Len(v.Messages) : ms[i].ok,
             doc |-> [messages |-> [i \in 1..Len(v.Messages) |-> ms[i].doc]]]
    ELSE MarshalMessageRequest(v)

---------------------------------------------------------------------------
(* Client construction *)

DefaultConfig ==
    [BaseURL |-> DefaultBaseURL, Timeout |-> DefaultConfigTimeout]

\* mutant: the zero Timeout is kept
NormalizeTimeout_Keep(cfg) == cfg

\* NewClient, the write through the config pointer: a zero Timeout is
\* replaced in the Config object itself
NormalizeTimeout(cfg) ==
    [cfg EXCEPT !.Timeout = IF @ = 0 THEN FallbackTimeout ELSE @]

\* NewClient, the Client literal
BuildClient(cfg) ==
    [baseURL |-> cfg.BaseURL,
     httpClient |-> [Timeout |-> cfg.Timeout],
     timeout |-> cfg.Timeout]

---------------------------------------------------------------------------
(* The transport wrapper and the response decoder *)

NoOutcome == [kind |-> "none"]

TransportFailure(cause) == [kind |-> "failure", cause |-> cause]

Response(status, body) ==
    [kind |-> "response", StatusCode |-> status, Body |-> body, read |-> "unread"]

\* mutant: the request is sent without the caller's context
DoOutcomes_IgnoresContext(ctx) ==
    {TransportFailure("connection refused")}
        \cup { Response(st, b) : st \in Statuses, b \in Bodies }

\* what httpClient.Do may do with a request under the caller's context
DoOutcomes(ctx) ==
    IF ctx = "cancelled"
    THEN {TransportFailure("context canceled")}
    ELSE {TransportFailure("connection refused"),
          TransportFailure("context deadline exceeded")}
            \cup { Response(st, b) : st \in Statuses, b \in Bodies }

\* url.Parse inside http.NewRequestWithContext
ParseURL(baseURL, path) ==
    [ok |-> baseURL # MalformedURL, url |-> baseURL \o path]

\* mutant: the Content-Type header is set on every request
BuildRequest_AlwaysJSON(baseURL, method, path, body) ==
    LET m == IF Len(body) = 0 THEN [ok |-> TRUE, doc |-> <<>>] ELSE Marshal(body[1])
        u == ParseURL(baseURL, path)
    IN IF ~m.ok
       THEN [req |-> <<>>,
             err |-> Wrapf("serialization", "failed to marshal request body",
                           "json: unsupported type")]
       ELSE IF ~u.ok
       THEN [req |-> <<>>,
             err |-> Wrapf("request", "failed to create request",
                           "missing protocol scheme")]
       ELSE [req |-> <<[method |-> method, url |-> u.url,
                        body |-> IF Len(body) = 0 THEN <<>> ELSE <<m.doc>>,
                        contentType |-> "application/json"]>>,
             err |-> NoError]

\* doRequest up to the call of httpClient.Do: body is <<>> (nil) or <<v>>.
\* Yields the error doRequest returns early, or the request it hands to Do.
BuildRequest(baseURL, method, path, body) ==
    LET m == IF Len(body) = 0 THEN [ok |-> TRUE, doc |-> <<>>] ELSE Marshal(body[1])
        u == ParseURL(baseURL, path)
    IN IF ~m.ok
       THEN [req |-> <<>>,
             err |-> Wrapf("serialization", "failed to marshal request body",
                           "json: unsupported type")]
       ELSE IF ~u.ok
       THEN [req |-> <<>>,
             err |-> Wrapf("request", "failed to create request",
                           "missing protocol scheme")]
       ELSE [req |-> <<[method |-> method, url |-> u.url,
                        body |-> IF Len(body) = 0 THEN <<>> ELSE <<m.doc>>,
                        contentType |-> IF Len(body) = 0 THEN ""
                                        ELSE "application/json"]>>,
             err |-> NoError]

\* mutant: a failed attempt is followed by a second one
DoAttempts_Retry(req) == <<req, req>>

\* doRequest calls httpClient.Do once: the requests one call hands over
DoAttempts(req) == <<req>>

\* doRequest's error when httpClient.Do fails
RequestFailed(cause) == Wrapf("transport", "request failed", cause)

\* mutant: the status test is > 400 instead of >= 400
ParseResponse_AboveFloor(response, readFails, target) ==
    IF readFails
    THEN [val |-> <<>>,
          err |-> Wrapf("read", "failed to read response body", "unexpected EOF")]
    ELSE IF response.StatusCode > ErrorStatusFloor
    THEN [val |-> <<>>, err |-> NewAPIError(response.StatusCode, response.Body.raw)]
    ELSE IF Len(target) # 0 /\ ~Unmarshal(response.Body, target[1]).ok
    THEN [val |-> <<>>,
          err |-> Wrapf("decode", "failed to unmarshal response",
                        "json: cannot unmarshal")]
    ELSE IF Len(target) # 0
    THEN [val |-> <<Unmarshal(response.Body, target[1]).val>>, err |-> NoError]
    ELSE [val |-> <<>>, err |-> NoError]

\* mutant: every status other than 200 counts as an error
ParseResponse_OnlyOK(response, readFails, target) ==
    IF readFails
    THEN [val |-> <<>>,
          err |-> Wrapf("read", "failed to read response body", "unexpected EOF")]
    ELSE IF response.StatusCode # StatusOK
    THEN [val |-> <<>>, err |-> NewAPIError(response.StatusCode, response.Body.raw)]
    ELSE IF Len(target) # 0 /\ ~Unmarshal(response.Body, target[1]).ok
    THEN [val |-> <<>>,
          err |-> Wrapf("decode", "failed to unmarshal response",
                        "json: cannot unmarshal")]
    ELSE IF Len(target) # 0
    THEN [val |-> <<Unmarshal(response.Body, target[1]).val>>, err |-> NoError]
    ELSE [val |-> <<>>, err |-> NoError]

\* parseResponse: target is <<>> (nil) or <<shape>>; readFails is the
\* outcome of io.ReadAll on the body
ParseResponse(response, readFails, target) ==
    IF readFails
    THEN [val |-> <<>>,
          err |-> Wrapf("read", "failed to read response body", "unexpected EOF")]
    ELSE IF response.StatusCode >= ErrorStatusFloor
    THEN [val |-> <<>>, err |-> NewAPIError(response.StatusCode, response.Body.raw)]
    ELSE IF Len(target) # 0
    THEN LET u == Unmarshal(response.Body, target[1])
         IN IF ~u.ok
            THEN [val |-> <<>>,
                  err |-> Wrapf("decode", "failed to unmarshal response",
                                "json: cannot unmarshal")]
            ELSE [val |-> <<u.val>>, err |-> NoError]
    ELSE [val |-> <<>>, err |-> NoError]

\* mutant: the body is closed by a call at the end of parseResponse, which
\* the early returns skip
ParseResponseCloses_AtEnd(response, readFails, target) ==
    IF ParseResponse(response, readFails, target).err.kind = "nil" THEN 1 ELSE 0

\* parseResponse's "defer resp.Body.Close()": the Close calls made by the
\* time it returns, on every path
ParseResponseCloses(response, readFails, target) == 1

\* CheckHealth's "defer resp.Body.Close()", registered before the status test
CheckHealthCloses(response) == 1

---------------------------------------------------------------------------
(* Local validation and result selection of the public operations *)

ValidPriorities == {"low", "medium", "high"}

\* -count on the modelled int
Neg(count) == IF count = IntMin THEN IntMin ELSE -count

PostMessageValidate(req) ==
    IF Len(req) = 0
    THEN Errorf("validation", "message request cannot be nil")
    ELSE NoError

\* mutant: the empty message sequence is not rejected
PostBulkMessagesValidate_NilOnly(req) ==
    IF Len(req) = 0
    THEN Errorf("validation", "bulk message request cannot be nil")
    ELSE NoError

PostBulkMessagesValidate(req) ==
    IF Len(req) = 0
    THEN Errorf("validation", "bulk message request cannot be nil")
    ELSE IF Len(req[1].Messages) = 0
    THEN Errorf("validation", "no messages provided")
    ELSE NoError

\* mutant: only the empty priority is rejected
ScaleWorkersValidate_EmptyOnly(priority, count) ==
    IF priority = ""
    THEN Errorf("validation", "priority is required")
    ELSE IF count = 0
    THEN Errorf("validation", "count cannot be 0")
    ELSE NoError

\* mutant: the zero count is not rejected
ScaleWorkersValidate_NoZeroCheck(priority, count) ==
    IF priority = ""
    THEN Errorf("validation", "priority is required")
    ELSE IF priority # "low" /\ priority # "medium" /\ priority # "high"
    THEN Errorf("validation", "priority must be 'low', 'medium', or 'high'")
    ELSE NoError

ScaleWorkersValidate(priority, count) ==
    IF priority = ""
    THEN Errorf("validation", "priority is required")
    ELSE IF priority # "low" /\ priority # "medium" /\ priority # "high"
    THEN Errorf("validation", "priority must be 'low', 'medium', or 'high'")
    ELSE IF count = 0
    THEN Errorf("validation", "count cannot be 0")
    ELSE NoError

ScaleWorkersPath(priority, count) ==
    "/api/v1/workers/scale/" \o priority \o "?count=" \o ToString(count)

AddWorkersValidate(count) ==
    IF count <= 0
    THEN Errorf("validation", "count must be greater than 0")
    ELSE NoError

\* the count AddWorkers passes on to ScaleWorkers
AddWorkersCount(count) == count

RemoveWorkersValidate(count) ==
    IF count <= 0
    THEN Errorf("validation", "count must be greater than 0")
    ELSE NoError

\* mutant: the count is passed on without negation
RemoveWorkersCount_Unnegated(count) == count

\* the count RemoveWorkers passes on to ScaleWorkers
RemoveWorkersCount(count) == Neg(count)

\* the MessageRequest each convenience wrapper builds
WrapperRequest(priority, itemID, callbackURL, objectBody) ==
    <<[ItemID |-> itemID, Priority |-> priority, Topic |-> TopicPullRequests,
       CallbackURL |-> callbackURL, ObjectBody |-> objectBody]>>

\* mutant: the first status fetched is kept and served to later calls
GetWorkerCountResult_Cached(status, err, priority) ==
    IF err.kind # "nil" THEN [val |-> 0, err |-> err]
    ELSE LET cached == IF Len(lastStatus) = 1 THEN lastStatus ELSE status
         IN CASE priority = "low" -> [val |-> cached[1].LowPriority.Count, err |-> NoError]
              [] priority = "medium" -> [val |-> cached[1].MediumPriority.Count, err |-> NoError]
              [] priority = "high" -> [val |-> cached[1].HighPriority.Count, err |-> NoError]
              [] OTHER -> [val |-> 0,
                           err |-> Errorf("validation", "invalid priority: " \o priority)]

\* GetWorkerCount after GetWorkerStatus returned (status, err)
GetWorkerCountResult(status, err, priority) ==
    IF err.kind # "nil" THEN [val |-> 0, err |-> err]
    ELSE CASE priority = "low" -> [val |-> status[1].LowPriority.Count, err |-> NoError]
           [] priority = "medium" -> [val |-> status[1].MediumPriority.Count, err |-> NoError]
           [] priority = "high" -> [val |-> status[1].HighPriority.Count, err |-> NoError]
           [] OTHER -> [val |-> 0,
                        err |-> Errorf("validation", "invalid priority: " \o priority)]

\* GetTotalWorkerCount after GetWorkerStatus returned (status, err)
GetTotalWorkerCountResult(status, err) ==
    IF err.kind # "nil" THEN [val |-> 0, err |-> err]
    ELSE [val |-> status[1].TotalWorkers, err |-> NoError]

\* mutant: only statuses >= 400 count as failures
CheckHealthResult_ErrorFloor(response) ==
    IF response.StatusCode >= ErrorStatusFloor
    THEN [val |-> <<>>,
          err |-> NewAPIError(response.StatusCode,
                              "health check failed with status "
                                  \o ToString(response.StatusCode))]
    ELSE [val |-> <<[Status |-> "OK"]>>, err |-> NoError]

\* CheckHealth after doRequest returned a response; the body is not read
CheckHealthResult(response) ==
    IF response.StatusCode # StatusOK
    THEN [val |-> <<>>,
          err |-> NewAPIError(response.StatusCode,
                              "health check failed with status "
                                  \o ToString(response.StatusCode))]
    ELSE [val |-> <<[Status |-> "OK"]>>, err |-> NoError]

\* mutant: the comparison is err != nil
IsHealthyResult_Negated(err) == [val |-> err.kind # "nil", err |-> NoError]

\* IsHealthy: err == nil; it returns the bool alone
IsHealthyResult(err) == [val |-> err.kind = "nil", err |-> NoError]

HealthOps == {"CheckHealth", "IsHealthy", "Ping"}

\* the struct each JSON-returning operation hands to parseResponse
Target(op) ==
    CASE op \in {"PostMessage", "PostMessageWithDefaults",
                 "PostHighPriorityMessage", "PostLowPriorityMessage"}
            -> "MessageResponse"
      [] op = "PostBulkMessages" -> "BulkMessageResponse"
      [] op \in {"GetWorkerStatus", "GetWorkerCount", "GetTotalWorkerCount"}
            -> "WorkerStatusResponse"
      [] op \in {"ScaleWorkers", "AddWorkers", "RemoveWorkers"}
            -> "ScaleWorkersResponse"
      [] op = "RemoveAllWorkers" -> "RemoveAllWorkersResponse"

\* what a JSON-returning operation returns once parseResponse returned r
AfterParse(r) ==
    IF r.err.kind # "nil" THEN [val |-> <<>>, err |-> r.err] ELSE r

\* what the public operation returns, given what the operation that owns
\* the round trip returned
Finish(rec, inner) ==
    CASE rec.op = "GetWorkerCount"
            -> GetWorkerCountResult(inner.val, inner.err, rec.priority)
      [] rec.op = "GetTotalWorkerCount"
            -> GetTotalWorkerCountResult(inner.val, inner.err)
      [] rec.op = "IsHealthy" -> IsHealthyResult(inner.err)
      [] OTHER -> inner

---------------------------------------------------------------------------
(* State machine *)

NoCall == [op |-> "none", priority |-> "", count |-> 0, req |-> <<>>, ctx |-> "live"]

NoReturn == [val |-> <<>>, err |-> NoError]

NoHealth == [set |-> FALSE, ctx |-> "live", outcome |-> NoOutcome, err |-> NoError]

Init ==
    /\ config \in Configs
    /\ ctor = [name |-> "none", arg |-> <<>>]
    /\ client = <<>>
    /\ pc = [c \in Callers |-> "idle"]
    /\ call = [c \in Callers |-> NoCall]
    /\ sent = [c \in Callers |-> <<>>]
    /\ opened = [c \in Callers |-> 0]
    /\ closed = [c \in Callers |-> 0]
    /\ outcome = [c \in Callers |-> NoOutcome]
    /\ ret = [c \in Callers |-> NoReturn]
    /\ lastHealth = NoHealth
    /\ lastStatus = <<>>

callVars == <<pc, call, sent, opened, closed, outcome, ret, lastHealth, lastStatus>>

\* NewClient(config) with the caller's config pointer
NewClient ==
    /\ client = <<>>
    /\ ctor' = [name |-> "NewClient", arg |-> config]
    /\ LET cfg == NormalizeTimeout(IF Len(config) = 0 THEN DefaultConfig
                                   ELSE config[1])
       IN /\ config' = IF Len(config) = 0 THEN config ELSE <<cfg>>
          /\ client' = <<BuildClient(cfg)>>
    /\ UNCHANGED callVars

\* NewClientWithDefaults(): NewClient on a fresh DefaultConfig()
NewClientWithDefaults ==
    /\ client = <<>>
    /\ ctor' = [name |-> "NewClientWithDefaults", arg |-> <<DefaultConfig>>]
    /\ client' = <<BuildClient(NormalizeTimeout(DefaultConfig))>>
    /\ UNCHANGED config
    /\ UNCHANGED callVars

\* the record of a CheckHealth call that has returned
HealthRecord(rec, o, r) ==
    [set |-> TRUE, ctx |-> rec.ctx, outcome |-> o, err |-> r.err]

\* lastHealth is kept for comparison while the caller goes on probing
\* health, and dropped when it turns to another operation
KeepHealth(rec) == IF rec.op \in HealthOps THEN lastHealth ELSE NoHealth

StatusOps == {"GetWorkerStatus", "GetWorkerCount", "GetTotalWorkerCount"}

\* lastStatus is kept for comparison while the caller goes on fetching the
\* worker status, and dropped when it turns to another operation
KeepStatus(rec) == IF rec.op \in StatusOps THEN lastStatus ELSE <<>>

\* the *WorkerStatusResponse GetWorkerStatus returned inside the call that
\* has just completed: <<>> (nil) when it failed or was not called
FetchedStatus(c) ==
    IF /\ call[c].op \in StatusOps
       /\ outcome[c].kind = "response"
       /\ outcome[c].read = "ok"
    THEN ParseResponse(outcome[c], FALSE, <<"WorkerStatusResponse">>).val
    ELSE <<>>

\* A public operation is entered: local validation gave verr; when it
\* passed, doRequest(ctx, method, path, body) runs up to httpClient.Do
Begin(c, rec, verr, method, path, body) ==
    /\ Len(client) = 1
    /\ pc[c] = "idle"
    /\ call' = [call EXCEPT ![c] = rec]
    /\ opened' = [opened EXCEPT ![c] = 0]
    /\ closed' = [closed EXCEPT ![c] = 0]
    /\ outcome' = [outcome EXCEPT ![c] = NoOutcome]
    /\ lastStatus' = KeepStatus(rec)
    /\ LET early == IF verr.kind # "nil" THEN verr
                    ELSE BuildRequest(client[1].baseURL, method, path, body).err
       IN IF early.kind # "nil"
          THEN LET r == Finish(rec, [val |-> <<>>, err |-> early])
               IN /\ sent' = [sent EXCEPT ![c] = <<>>]
                  /\ pc' = [pc EXCEPT ![c] = "done"]
                  /\ ret' = [ret EXCEPT ![c] = r]
                  /\ lastHealth' = IF rec.op = "CheckHealth"
                                   THEN HealthRecord(rec, NoOutcome, r)
                                   ELSE KeepHealth(rec)
          ELSE /\ sent' = [sent EXCEPT ![c] =
                             DoAttempts(BuildRequest(client[1].baseURL, method,
                                                     path, body).req[1])]
               /\ pc' = [pc EXCEPT ![c] = "waiting"]
               /\ ret' = [ret EXCEPT ![c] = NoReturn]
               /\ lastHealth' = KeepHealth(rec)
    /\ UNCHANGED <<config, ctor, client>>

Args(op, priority, count, req, ctx) ==
    [op |-> op, priority |-> priority, count |-> count, req |-> req, ctx |-> ctx]

PostMessageCall(c, op, req, ctx) ==
    Begin(c, Args(op, "", 0, req, ctx), PostMessageValidate(req),
          "POST", "/api/v1/messages", req)

PostMessage(c) ==
    \E req \in MessageRequestPtrs, ctx \in Contexts :
        PostMessageCall(c, "PostMessage", req, ctx)

PostBulkMessages(c) ==
    \E req \in BulkRequestPtrs, ctx \in Contexts :
        Begin(c, Args("PostBulkMessages", "", 0, req, ctx),
              PostBulkMessagesValidate(req),
              "POST", "/api/v1/messages/bulk", req)

PostMessageWithDefaults(c) ==
    \E objectBody \in ObjectBodies, ctx \in Contexts :
        PostMessageCall(c, "PostMessageWithDefaults",
                        WrapperRequest(PriorityMedium, "pr-9", "https://cb", objectBody),
                        ctx)

PostHighPriorityMessage(c) ==
    \E objectBody \in ObjectBodies, ctx \in Contexts :
        PostMessageCall(c, "PostHighPriorityMessage",
                        WrapperRequest(PriorityHigh, "pr-9", "https://cb", objectBody),
                        ctx)

PostLowPriorityMessage(c) ==
    \E objectBody \in ObjectBodies, ctx \in Contexts :
        PostMessageCall(c, "PostLowPriorityMessage",
                        WrapperRequest(PriorityLow, "pr-9", "https://cb", objectBody),
                        ctx)

GetWorkerStatusCall(c, op, priority, ctx) ==
    Begin(c, Args(op, priority, 0, <<>>, ctx), NoError,
          "GET", "/api/v1/workers/status", <<>>)

GetWorkerStatus(c) ==
    \E ctx \in Contexts : GetWorkerStatusCall(c, "GetWorkerStatus", "", ctx)

\* ScaleWorkers(ctx, priority, count), entered directly or from
\* AddWorkers / RemoveWorkers, whose own check gave outer
ScaleWorkersCall(c, rec, outer, priority, count) ==
    Begin(c, rec,
          IF outer.kind # "nil" THEN outer ELSE ScaleWorkersValidate(priority, count),
          "POST", ScaleWorkersPath(priority, count), <<>>)

ScaleWorkers(c) ==
    \E priority \in Priorities, count \in Ints, ctx \in Contexts :
        ScaleWorkersCall(c, Args("ScaleWorkers", priority, count, <<>>, ctx),
                         NoError, priority, count)

AddWorkers(c) ==
    \E priority \in Priorities, count \in Ints, ctx \in Contexts :
        ScaleWorkersCall(c, Args("AddWorkers", priority, count, <<>>, ctx),
                         AddWorkersValidate(count), priority, AddWorkersCount(count))

RemoveWorkers(c) ==
    \E priority \in Priorities, count \in Ints, ctx \in Contexts :
        ScaleWorkersCall(c, Args("RemoveWorkers", priority, count, <<>>, ctx),
                         RemoveWorkersValidate(count), priority,
                         RemoveWorkersCount(count))

RemoveAllWorkers(c) ==
    \E ctx \in Contexts :
        Begin(c, Args("RemoveAllWorkers", "", 0, <<>>, ctx), NoError,
              "POST", "/api/v1/workers/remove-all", <<>>)

GetWorkerCount(c) ==
    \E priority \in Priorities, ctx \in Contexts :
        GetWorkerStatusCall(c, "GetWorkerCount", priority, ctx)

GetTotalWorkerCount(c) ==
    \E ctx \in Contexts : GetWorkerStatusCall(c, "GetTotalWorkerCount", "", ctx)

CheckHealthCall(c, op, ctx) ==
    Begin(c, Args(op, "", 0, <<>>, ctx), NoError, "GET", "/health", <<>>)

CheckHealth(c) == \E ctx \in Contexts : CheckHealthCall(c, "CheckHealth", ctx)

IsHealthy(c) == \E ctx \in Contexts : CheckHealthCall(c, "IsHealthy", ctx)

Ping(c) == \E ctx \in Contexts : CheckHealthCall(c, "Ping", ctx)

\* httpClient.Do returns an error: doRequest wraps it and the operation returns
TransportFails(c) ==
    /\ pc[c] = "waiting"
    /\ \E o \in DoOutcomes(call[c].ctx) :
        /\ o.kind = "failure"
        /\ LET r == Finish(call[c], [val |-> <<>>, err |-> RequestFailed(o.cause)])
           IN /\ outcome' = [outcome EXCEPT ![c] = o]
              /\ ret' = [ret EXCEPT ![c] = r]
              /\ lastHealth' = IF call[c].op = "CheckHealth"
                               THEN HealthRecord(call[c], o, r)
                               ELSE lastHealth
    /\ pc' = [pc EXCEPT ![c] = "done"]
    /\ UNCHANGED <<config, ctor, client, call, sent, opened, closed, lastStatus>>

\* httpClient.Do returns a response.  CheckHealth inspects the status and
\* returns, its deferred Close running on the way out; every other operation
\* enters parseResponse and blocks in io.ReadAll
ResponseArrives(c) ==
    /\ pc[c] = "waiting"
    /\ \E o \in DoOutcomes(call[c].ctx) :
        /\ o.kind = "response"
        /\ outcome' = [outcome EXCEPT ![c] = o]
        /\ opened' = [opened EXCEPT ![c] = @ + 1]
        /\ IF call[c].op \in HealthOps
           THEN LET r == Finish(call[c], CheckHealthResult(o))
                IN /\ closed' = [closed EXCEPT ![c] = @ + CheckHealthCloses(o)]
                   /\ ret' = [ret EXCEPT ![c] = r]
                   /\ pc' = [pc EXCEPT ![c] = "done"]
                   /\ lastHealth' = IF call[c].op = "CheckHealth"
                                    THEN HealthRecord(call[c], o, r)
                                    ELSE lastHealth
           ELSE /\ pc' = [pc EXCEPT ![c] = "reading"]
                /\ UNCHANGED <<closed, ret, lastHealth>>
    /\ UNCHANGED <<config, ctor, client, call, sent, lastStatus>>

\* mutant: the Client keeps the response being read in a field of its own,
\* which a second caller finds occupied by the first caller's response
ReadBody_SharedBuffer(c) ==
    /\ pc[c] = "reading"
    /\ LET d == IF pc["c1"] = "reading" THEN "c1" ELSE c
       IN \E readFails \in BOOLEAN :
            /\ outcome' = [outcome EXCEPT ![c].read =
                              IF readFails THEN "failed" ELSE "ok"]
            /\ ret' = [ret EXCEPT ![c] =
                          Finish(call[c],
                                 AfterParse(ParseResponse(outcome[d], readFails,
                                                          <<Target(call[c].op)>>)))]
            /\ closed' = [closed EXCEPT ![c] =
                             @ + ParseResponseCloses(outcome[c], readFails,
                                                     <<Target(call[c].op)>>)]
    /\ pc' = [pc EXCEPT ![c] = "done"]
    /\ UNCHANGED <<config, ctor, client, call, sent, opened, lastHealth, lastStatus>>

\* io.ReadAll returns: the rest of parseResponse, its deferred Close, and
\* the operation's return
ReadBody(c) ==
    /\ pc[c] = "reading"
    /\ \E readFails \in BOOLEAN :
        /\ outcome' = [outcome EXCEPT ![c].read =
                          IF readFails THEN "failed" ELSE "ok"]
        /\ ret' = [ret EXCEPT ![c] =
                      Finish(call[c],
                             AfterParse(ParseResponse(outcome[c], readFails,
                                                      <<Target(call[c].op)>>)))]
        /\ closed' = [closed EXCEPT ![c] =
                         @ + ParseResponseCloses(outcome[c], readFails,
                                                 <<Target(call[c].op)>>)]
    /\ pc' = [pc EXCEPT ![c] = "done"]
    /\ UNCHANGED <<config, ctor, client, call, sent, opened, lastHealth, lastStatus>>

\* the caller has taken the result; its next call starts afresh
Return(c) ==
    /\ pc[c] = "done"
    /\ pc' = [pc EXCEPT ![c] = "idle"]
    /\ call' = [call EXCEPT ![c] = NoCall]
    /\ sent' = [sent EXCEPT ![c] = <<>>]
    /\ opened' = [opened EXCEPT ![c] = 0]
    /\ closed' = [closed EXCEPT ![c] = 0]
    /\ outcome' = [outcome EXCEPT ![c] = NoOutcome]
    /\ ret' = [ret EXCEPT ![c] = NoReturn]
    /\ lastStatus' = FetchedStatus(c)
    /\ UNCHANGED <<config, ctor, client, lastHealth>>

Next ==
    \/ NewClient
    \/ NewClientWithDefaults
    \/ \E c \in Callers :
        \/ PostMessage(c)
        \/ PostBulkMessages(c)
        \/ PostMessageWithDefaults(c)
        \/ PostHighPriorityMessage(c)
        \/ PostLowPriorityMessage(c)
        \/ GetWorkerStatus(c)
        \/ ScaleWorkers(c)
        \/ AddWorkers(c)
        \/ RemoveWorkers(c)
        \/ RemoveAllWorkers(c)
        \/ GetWorkerCount(c)
        \/ GetTotalWorkerCount(c)
        \/ CheckHealth(c)
        \/ IsHealthy(c)
        \/ Ping(c)
        \/ TransportFails(c)
        \/ ResponseArrives(c)
        \/ ReadBody(c)
        \/ Return(c)

Spec == Init /\ [][Next]_vars

---------------------------------------------------------------------------
(* Two goroutines sharing one Client.  Each runs the operations above; the *)
(* arguments and the responses are drawn from smaller sets.                *)

ConcurrentCallers == {"c1", "c2"}

ConcurrentConfigs ==
    { <<>>, <<[BaseURL |-> "https://example.com", Timeout |-> 0]>> }

ConcurrentCalls ==
    { Args("PostMessage", "", 0,
           <<[ItemID |-> "pr-1", Priority |-> "invalid", Topic |-> TopicPullRequests,
              CallbackURL |-> "https://cb", ObjectBody |-> "map"]>>, ctx) :
        ctx \in Contexts }
      \cup { Args("ScaleWorkers", priority, 2, <<>>, "live") :
                priority \in {"high", "invalid"} }
      \cup { Args("Ping", "", 0, <<>>, "live") }

ConcurrentOutcomes ==
    {TransportFailure("connection refused"), TransportFailure("context canceled")}
        \cup { Response(st, b) : st \in {201, 500}, b \in {MessageBody, TextBody} }

InitConcurrent ==
    /\ config \in ConcurrentConfigs
    /\ ctor = [name |-> "none", arg |-> <<>>]
    /\ client = <<>>
    /\ pc = [c \in ConcurrentCallers |-> "idle"]
    /\ call = [c \in ConcurrentCallers |-> NoCall]
    /\ sent = [c \in ConcurrentCallers |-> <<>>]
    /\ opened = [c \in ConcurrentCallers |-> 0]
    /\ closed = [c \in ConcurrentCallers |-> 0]
    /\ outcome = [c \in ConcurrentCallers |-> NoOutcome]
    /\ ret = [c \in ConcurrentCallers |-> NoReturn]
    /\ lastHealth = NoHealth
    /\ lastStatus = <<>>

\* a call is entered by one goroutine while the other is anywhere in its own
EnterCall(c) ==
    /\ PostMessage(c) \/ ScaleWorkers(c) \/ Ping(c)
    /\ call'[c] \in ConcurrentCalls

\* httpClient.Do returns to one goroutine
DoReturns(c) ==
    /\ TransportFails(c) \/ ResponseArrives(c)
    /\ outcome'[c] \in ConcurrentOutcomes

NextConcurrent ==
    \/ NewClient
    \/ NewClientWithDefaults
    \/ \E c \in ConcurrentCallers :
        \/ EnterCall(c)
        \/ DoReturns(c)
        \/ ReadBody(c)
        \/ Return(c)

SpecConcurrent == InitConcurrent /\ [][NextConcurrent]_vars

---------------------------------------------------------------------------
(* Properties *)

Returned(c) == pc[c] = "done"

GotResponse(c) == outcome[c].kind = "response"

\* C1: for every priority outside {low, medium, high}, getWorkerCount
\* returns a ValidationError and sends no request to the status endpoint
\* at any point of the call.
C1_GetWorkerCountRejectsLocally ==
    \A c \in Callers :
        (call[c].op = "GetWorkerCount" /\ call[c].priority \notin ValidPriorities)
            => /\ sent[c] = <<>>
               /\ Returned(c) => ret[c].err.kind = "validation"

\* C2: for every priority outside {low, medium, high}, the empty string
\* included, and every count, scaleWorkers returns a ValidationError and
\* no request is handed to the transport.
C2_ScaleWorkersRejectsPriority ==
    \A c \in Callers :
        (call[c].op = "ScaleWorkers" /\ call[c].priority \notin ValidPriorities)
            => /\ Returned(c)
               /\ ret[c].err.kind = "validation"
               /\ ret[c].val = <<>>
               /\ sent[c] = <<>>
               /\ outcome[c] = NoOutcome

C2_Witness ==
    \E c \in Callers :
        /\ call[c].op = "ScaleWorkers"
        /\ call[c].priority = ""
        /\ call[c].count = 1
        /\ Returned(c)
        /\ ret[c].err.kind = "validation"

\* C3: scaleWorkers(p, 0) fails with a ValidationError for every p, and
\* addWorkers(p, c) and removeWorkers(p, c) fail with a ValidationError
\* for every c <= 0 and every p; no request is sent in any of these cases.
C3_CountsRejected ==
    \A c \in Callers :
        (\/ call[c].op = "ScaleWorkers" /\ call[c].count = 0
         \/ call[c].op \in {"AddWorkers", "RemoveWorkers"} /\ call[c].count <= 0)
            => /\ Returned(c)
               /\ ret[c].err.kind = "validation"
               /\ ret[c].val = <<>>
               /\ sent[c] = <<>>
               /\ outcome[c] = NoOutcome

C3_Witness ==
    \E c \in Callers :
        /\ call[c].op = "RemoveWorkers"
        /\ call[c].priority = "high"
        /\ call[c].count = IntMin
        /\ Returned(c)
        /\ ret[c].err.kind = "validation"
        /\ sent[c] = <<>>

\* C4: postMessage with a nil request, and postBulkMessages with a nil
\* request or an empty message sequence, fail with a ValidationError and
\* send no request.
C4_AbsentRequestsRejected ==
    \A c \in Callers :
        (\/ call[c].op = "PostMessage" /\ Len(call[c].req) = 0
         \/ /\ call[c].op = "PostBulkMessages"
            /\ (Len(call[c].req) = 0 \/ Len(call[c].req[1].Messages) = 0))
            => /\ Returned(c)
               /\ ret[c].err.kind = "validation"
               /\ ret[c].val = <<>>
               /\ sent[c] = <<>>
               /\ outcome[c] = NoOutcome

C4_Witness ==
    \E c \in Callers :
        /\ call[c].op = "PostBulkMessages"
        /\ Len(call[c].req) = 1
        /\ Len(call[c].req[1].Messages) = 0
        /\ Returned(c)
        /\ ret[c].err.kind = "validation"

JSONOps ==
    {"PostMessage", "PostBulkMessages", "GetWorkerStatus", "ScaleWorkers",
     "RemoveAllWorkers"}

ErrorResponse(c) ==
    /\ Returned(c)
    /\ call[c].op \in JSONOps
    /\ GotResponse(c)
    /\ outcome[c].StatusCode >= 400

IsRawBodyAPIError(c) ==
    /\ IsAPIError(ret[c].err)
    /\ ret[c].err.StatusCode = outcome[c].StatusCode
    /\ ret[c].err.Message = outcome[c].Body.raw
    /\ ret[c].val = <<>>

\* C5 as stated: for every JSON-returning operation, a response with any
\* status >= 400 yields an APIError carrying the response status and the
\* raw body, whatever the body holds, and no result is returned.
C5_ErrorStatusAlwaysAPIError ==
    \A c \in Callers : ErrorResponse(c) => IsRawBodyAPIError(c)

\* C5 amended: for every JSON-returning operation, a response with status
\* >= 400 whose body was read to the end yields an APIError carrying the
\* response status and the raw body, whatever the body holds (JSON or not),
\* and no result; when reading the body fails the call returns the read
\* error, which is not an APIError, and no result.
C5_ErrorStatusAPIErrorWhenRead ==
    \A c \in Callers :
        ErrorResponse(c)
            => /\ outcome[c].read = "ok" => IsRawBodyAPIError(c)
               /\ outcome[c].read = "failed"
                    => /\ ret[c].err.kind = "read"
                       /\ ~IsAPIError(ret[c].err)
                       /\ ret[c].val = <<>>

C5_Witness ==
    \E c \in Callers :
        /\ ErrorResponse(c)
        /\ call[c].op = "PostMessage"
        /\ outcome[c].StatusCode = 500
        /\ outcome[c].Body = MessageBody
        /\ outcome[c].read = "ok"
        /\ ret[c].err.Message = MessageBody.raw

\* the message CheckHealth is to synthesize for each non-200 status
HealthMessage(status) ==
    CASE status = 201 -> "health check failed with status 201"
      [] status = 304 -> "health check failed with status 304"
      [] status = 400 -> "health check failed with status 400"
      [] status = 500 -> "health check failed with status 500"

\* C6: checkHealth returns status "OK" for every 200 response whatever its
\* body, and for every other status an APIError with that status code and
\* a synthesized message that embeds the code and is the same for every body.
C6_CheckHealthByStatusAlone ==
    \A c \in Callers :
        (Returned(c) /\ call[c].op = "CheckHealth" /\ GotResponse(c))
            => IF outcome[c].StatusCode = 200
               THEN /\ ret[c].err = NoError
                    /\ ret[c].val = <<[Status |-> "OK"]>>
               ELSE /\ IsAPIError(ret[c].err)
                    /\ ret[c].err.StatusCode = outcome[c].StatusCode
                    /\ ret[c].err.Message = HealthMessage(outcome[c].StatusCode)
                    /\ ret[c].val = <<>>

C6_Witness ==
    \E c \in Callers :
        /\ Returned(c)
        /\ call[c].op = "CheckHealth"
        /\ GotResponse(c)
        /\ outcome[c].StatusCode = 500
        /\ outcome[c].Body = TextBody
        /\ ret[c].err.Message = "health check failed with status 500"

\* the call in progress met the same behaviour as the recorded CheckHealth
SameBehaviour(c) ==
    /\ lastHealth.set
    /\ lastHealth.ctx = call[c].ctx
    /\ lastHealth.outcome = outcome[c]

\* C7: whatever the server and the transport do (any status, any body,
\* transport failure, cancelled context), isHealthy returns true exactly
\* when checkHealth under the same behaviour returns no error.
C7_IsHealthyIffCheckHealthSucceeds ==
    \A c \in Callers :
        (Returned(c) /\ call[c].op = "IsHealthy" /\ SameBehaviour(c))
            => (ret[c].val <=> lastHealth.err.kind = "nil")

C7_Witness ==
    \E c \in Callers :
        /\ Returned(c)
        /\ call[c].op = "IsHealthy"
        /\ SameBehaviour(c)
        /\ GotResponse(c)
        /\ outcome[c].StatusCode = 200
        /\ ret[c].val

\* the client can build the request of the call: the body serializes and
\* the URL parses
Buildable(c) ==
    /\ client[1].baseURL # ":bad"
    /\ LET r == call[c].req
       IN \/ Len(r) = 0
          \/ IF "Messages" \in DOMAIN r[1]
             THEN \A i \in 1..Len(r[1].Messages) : r[1].Messages[i].ObjectBody # "chan"
             ELSE r[1].ObjectBody # "chan"

\* the one request scaleWorkers(p, n) is to send
ScaleRequest(p, n) ==
    [method |-> "POST",
     url |-> client[1].baseURL \o "/api/v1/workers/scale/" \o p \o "?count="
                \o ToString(n),
     body |-> <<>>,
     contentType |-> ""]

DirectScale(c) ==
    /\ call[c].op = "ScaleWorkers"
    /\ call[c].priority \in {"low", "medium", "high"}
    /\ call[c].count # 0

\* C8 as stated: every public operation whose local validation passes
\* issues exactly one outbound request per call, whatever the outcome, and
\* scaleWorkers(p, n) with valid p and n # 0 issues exactly one POST with
\* no body to /api/v1/workers/scale/{p}?count={n}.
C8_ExactlyOneRequest ==
    \A c \in Callers :
        /\ (Returned(c) /\ ret[c].err.kind # "validation") => Len(sent[c]) = 1
        /\ (Returned(c) /\ DirectScale(c))
                => sent[c] = <<ScaleRequest(call[c].priority, call[c].count)>>

\* C8 amended: every public operation whose local validation passes issues
\* at most one outbound request per call: exactly one when the request can
\* be built, whatever the outcome (success, status >= 400, decode failure,
\* transport failure), and none when it cannot (the body does not
\* serialize, or the URL does not parse); no operation sends a second
\* request.  scaleWorkers(p, n) with valid p and n # 0, on a client whose
\* URL parses, issues exactly one POST with no body to
\* /api/v1/workers/scale/{p}?count={n}.
C8_OneRequestWhenBuilt ==
    \A c \in Callers :
        /\ Len(sent[c]) <= 1
        /\ (Returned(c) /\ ret[c].err.kind # "validation")
                => Len(sent[c]) = IF Buildable(c) THEN 1 ELSE 0
        /\ (Returned(c) /\ DirectScale(c) /\ Buildable(c))
                => sent[c] = <<ScaleRequest(call[c].priority, call[c].count)>>

C8_Witness ==
    \E c \in Callers :
        /\ Returned(c)
        /\ call[c].op = "ScaleWorkers"
        /\ call[c].priority = "high"
        /\ call[c].count = 2
        /\ GotResponse(c)
        /\ outcome[c].StatusCode = 500
        /\ sent[c] = <<[method |-> "POST",
                        url |-> "http://localhost:8083/api/v1/workers/scale/high?count=2",
                        body |-> <<>>,
                        contentType |-> ""]>>

\* the call has not tripped validation and has sent scaleWorkers(p, n)'s
\* request (or none, when the client cannot build one)
SendsScaleRequest(c, p, n) ==
    /\ ret[c].err.kind # "validation"
    /\ sent[c] = IF Buildable(c) THEN <<ScaleRequest(p, n)>> ELSE <<>>

\* C9: for every valid priority p and every count c > 0, addWorkers(p, c)
\* sends the request scaleWorkers(p, c) sends (count = c, positive) and
\* removeWorkers(p, c) the request scaleWorkers(p, -c) sends (count = -c,
\* negative); neither trips scaleWorkers' zero-count rejection.
C9_AddRemoveDelegate ==
    \A c \in Callers :
        (pc[c] # "idle" /\ call[c].priority \in {"low", "medium", "high"})
            => /\ DirectScale(c)
                    => SendsScaleRequest(c, call[c].priority, call[c].count)
               /\ (call[c].op = "AddWorkers" /\ call[c].count > 0)
                    => SendsScaleRequest(c, call[c].priority, call[c].count)
               /\ (call[c].op = "RemoveWorkers" /\ call[c].count > 0)
                    => /\ SendsScaleRequest(c, call[c].priority, 0 - call[c].count)
                       /\ 0 - call[c].count < 0

C9_Witness ==
    \E c \in Callers :
        /\ call[c].op = "RemoveWorkers"
        /\ call[c].priority = "medium"
        /\ call[c].count = 2
        /\ pc[c] = "waiting"
        /\ sent[c][1].url = "https://example.com/api/v1/workers/scale/medium?count=-2"

\* C10: NewClient(nil) gives base URL http://localhost:8083 and timeout 30
\* seconds; a config with a zero timeout gives the 30-second default; a
\* config with a non-zero timeout gives the configured base URL and timeout.
C10_ClientConstruction ==
    Len(client) = 1
        => /\ Len(ctor.arg) = 0
                => /\ client[1].baseURL = "http://localhost:8083"
                   /\ client[1].timeout = 30
           /\ (Len(ctor.arg) = 1 /\ ctor.arg[1].Timeout = 0)
                => /\ client[1].timeout = 30
                   /\ client[1].baseURL = ctor.arg[1].BaseURL
           /\ (Len(ctor.arg) = 1 /\ ctor.arg[1].Timeout # 0)
                => /\ client[1].baseURL = ctor.arg[1].BaseURL
                   /\ client[1].timeout = ctor.arg[1].Timeout

C10_Witness ==
    /\ Len(client) = 1
    /\ ctor.name = "NewClient"
    /\ Len(ctor.arg) = 1
    /\ ctor.arg[1].Timeout = 0
    /\ client[1].timeout = 30

\* the operations that return what CheckHealth returns
HealthCalls == {"CheckHealth", "Ping"}

\* the operations that hand their response to parseResponse
ParsingOps ==
    {"PostMessage", "PostBulkMessages", "PostMessageWithDefaults",
     "PostHighPriorityMessage", "PostLowPriorityMessage", "GetWorkerStatus",
     "ScaleWorkers", "AddWorkers", "RemoveWorkers", "RemoveAllWorkers",
     "GetWorkerCount", "GetTotalWorkerCount"}

Is2xx(status) == status >= 200 /\ status <= 299

ClassifiedAsError(c) ==
    /\ GotResponse(c)
    /\ IF call[c].op \in HealthOps
       THEN outcome[c].StatusCode # 200
       ELSE outcome[c].read = "ok" /\ outcome[c].StatusCode >= 400

LocalErrorKinds ==
    {"nil", "validation", "serialization", "request", "transport", "read", "decode"}

ContextCauses == {"context canceled", "context deadline exceeded"}

\* the caller's context was cancelled before the call, or ended while the
\* request was in flight
ContextEnded(c) ==
    \/ call[c].ctx = "cancelled"
    \/ outcome[c].kind = "failure" /\ outcome[c].cause \in ContextCauses

\* the call failed with doRequest's "request failed" error wrapping a
\* context cause, returned no result, and never obtained or decoded a
\* response
FailedInTransport(c) ==
    /\ ret[c].err.kind = "transport"
    /\ ret[c].err.cause = outcome[c].cause
    /\ ret[c].err.cause \in ContextCauses
    /\ ~IsAPIError(ret[c].err)
    /\ ret[c].val = IF call[c].op \in {"GetWorkerCount", "GetTotalWorkerCount"}
                    THEN 0 ELSE <<>>
    /\ outcome[c].kind = "failure"
    /\ opened[c] = 0
    /\ closed[c] = 0

\* C13 as stated: when validation passes and the caller's context is
\* already cancelled or expires before a response is obtained, every public
\* operation that returns an error fails with a TransportError wrapping the
\* cause: not an APIError, no result, the decoder never run.
C13_ContextEndIsTransportError ==
    \A c \in Callers :
        (Returned(c) /\ call[c].op # "IsHealthy" /\ ContextEnded(c)
            /\ ret[c].err.kind # "validation")
            => FailedInTransport(c)

\* C13 amended: when validation passes, the request can be built (the body
\* serializes and the URL parses) and the caller's context is already
\* cancelled or expires before a response is obtained, every public
\* operation that returns an error fails with a TransportError wrapping the
\* cause: not an APIError, no result, the decoder never run; isHealthy
\* reports false.  When the request cannot be built the call fails earlier
\* with the serialization or request-construction error, whatever the
\* state of the context, and nothing is sent.
C13_ContextEndIsTransportErrorWhenBuilt ==
    \A c \in Callers :
        (Returned(c) /\ ContextEnded(c) /\ ret[c].err.kind # "validation")
            => IF ~Buildable(c)
               THEN /\ call[c].op # "IsHealthy"
                        => ret[c].err.kind \in {"serialization", "request"}
                    /\ sent[c] = <<>>
                    /\ outcome[c] = NoOutcome
               ELSE IF call[c].op = "IsHealthy"
               THEN /\ ret[c] = [val |-> FALSE, err |-> NoError]
                    /\ outcome[c].kind = "failure"
                    /\ opened[c] = 0
               ELSE FailedInTransport(c)

C13_Witness ==
    \E c \in Callers :
        /\ Returned(c)
        /\ call[c].op = "PostBulkMessages"
        /\ call[c].ctx = "cancelled"
        /\ ret[c].err = [kind |-> "transport", msg |-> "request failed",
                         cause |-> "context canceled"]
        /\ Len(sent[c]) = 1

\* the operations that post a message payload
BodyOps ==
    {"PostMessage", "PostBulkMessages", "PostMessageWithDefaults",
     "PostHighPriorityMessage", "PostLowPriorityMessage"}

\* C14: a request carries the header Content-Type: application/json if and
\* only if it carries a body: the requests of postMessage (and its
\* wrappers) and postBulkMessages carry both, and the requests of the
\* health, worker status, scale, add, remove, remove-all and count
\* operations carry neither.
C14_ContentTypeIffBody ==
    \A c \in Callers :
        \A i \in 1..Len(sent[c]) :
            /\ sent[c][i].contentType = "application/json" <=> sent[c][i].body # <<>>
            /\ sent[c][i].contentType \in {"", "application/json"}
            /\ call[c].op \in BodyOps <=> sent[c][i].body # <<>>

C14_Witness ==
    \E c \in Callers :
        /\ call[c].op = "PostBulkMessages"
        /\ Len(sent[c]) = 1
        /\ sent[c][1].contentType = "application/json"
        /\ sent[c][1].body = <<[messages |->
                <<[item_id |-> "pr-1", priority |-> "invalid",
                   topic |-> "pullrequests", callback_url |-> "https://cb",
                   object_body |-> "map"]>>]>>

\* the operations that decode a MessageResponse
MessageOps ==
    {"PostMessage", "PostMessageWithDefaults", "PostHighPriorityMessage",
     "PostLowPriorityMessage"}

\* the call obtained a response with a status below 400 and read its body
\* to the end
SuccessResponse(c) ==
    /\ Returned(c)
    /\ GotResponse(c)
    /\ outcome[c].StatusCode < 400
    /\ outcome[c].read = "ok"

\* C15: decode round trip: for every MessageResponse value, a success
\* response whose body, read in full, is the JSON encoding of that value
\* makes postMessage (and each wrapper that delegates to it) return no
\* error and a result whose every field equals the source value.
C15_DecodeRoundTrip ==
    \A c \in Callers :
        (SuccessResponse(c) /\ call[c].op \in MessageOps)
            => \A m \in MessageResponses :
                 outcome[c].Body = EncodeMessageResponse(m)
                    => /\ ret[c].err = NoError
                       /\ ret[c].val = <<m>>
                       /\ \A f \in {"ID", "Status", "ItemID", "Priority", "Topic"} :
                             ret[c].val[1][f] = m[f]

C15_Witness ==
    \E c \in Callers :
        /\ SuccessResponse(c)
        /\ call[c].op = "PostMessage"
        /\ outcome[c].StatusCode = 201
        /\ outcome[c].Body.raw = "{\"id\":\"\",\"status\":\"published\",\"itemId\":\"pr-1\",\"priority\":\"low\",\"topic\":\"pullrequests\"}"
        /\ ret[c].val = <<[ID |-> "", Status |-> "published", ItemID |-> "pr-1",
                           Priority |-> "low", Topic |-> "pullrequests"]>>

\* the number a JSON status document carries under a key path, as the
\* text of the document gives it: 0 where the key is absent
WireTotal(body) ==
    IF "total_workers" \in DOMAIN body.doc.v THEN body.doc.v.total_workers.v ELSE 0

WireCount(body, priority) ==
    LET key == priority \o "_priority"
    IN IF key \in DOMAIN body.doc.v /\ "count" \in DOMAIN body.doc.v[key].v
       THEN body.doc.v[key].v.count.v
       ELSE 0

StatusRequest ==
    [method |-> "GET", url |-> client[1].baseURL \o "/api/v1/workers/status",
     body |-> <<>>, contentType |-> ""]

\* the status document of this call's own response decodes
FetchSucceeded(c) ==
    /\ SuccessResponse(c)
    /\ Unmarshal(outcome[c].Body, "WorkerStatusResponse").ok

\* C16: getWorkerCount(p) for p in {low, medium, high} returns the count of
\* the bucket named p in the status response fetched by that same call,
\* and getTotalWorkerCount returns that response's total field; nothing is
\* cached: every call sends its own status request, and its result is that
\* of its own response whatever the caller's previous fetch returned.
C16_CountsFromOwnFetch ==
    \A c \in Callers :
        /\ (pc[c] # "idle" /\ call[c].op \in {"GetWorkerCount", "GetTotalWorkerCount"}
                /\ Buildable(c))
                => sent[c] = <<StatusRequest>>
        /\ (FetchSucceeded(c) /\ call[c].op = "GetWorkerCount"
                /\ call[c].priority \in {"low", "medium", "high"})
                => ret[c] = [val |-> WireCount(outcome[c].Body, call[c].priority),
                             err |-> NoError]
        /\ (FetchSucceeded(c) /\ call[c].op = "GetTotalWorkerCount")
                => ret[c] = [val |-> WireTotal(outcome[c].Body), err |-> NoError]

\* a second call in a row, answered differently from the first
C16_Witness ==
    \E c \in Callers :
        /\ FetchSucceeded(c)
        /\ call[c].op = "GetWorkerCount"
        /\ call[c].priority = "medium"
        /\ Len(lastStatus) = 1
        /\ lastStatus[1].MediumPriority.Count = 1
        /\ outcome[c].Body = BusyStatusBody
        /\ ret[c].val = 2
        /\ Len(sent[c]) = 1

\* the bodies no response struct of the package can be decoded from: text
\* that is not JSON, and a JSON object whose values have the wrong kind for
\* every struct
UndecodableBodies == {TextBody, MistypedBody}

DecodeFailure ==
    [kind |-> "decode", msg |-> "failed to unmarshal response",
     cause |-> "json: cannot unmarshal"]

\* C17: for every operation that decodes JSON, a response with status < 400
\* whose body, once read, cannot be deserialized into the expected shape
\* yields a DecodeError: the error is not an APIError, no result value is
\* returned, and the request is not sent again.  (When the body cannot even
\* be read the call fails with the read error, to the same three effects.)
C17_UndecodableBodyIsDecodeError ==
    \A c \in Callers :
        (Returned(c) /\ call[c].op \in ParsingOps /\ GotResponse(c)
            /\ outcome[c].StatusCode < 400
            /\ outcome[c].Body \in UndecodableBodies)
            => /\ outcome[c].read = "ok" => ret[c].err = DecodeFailure
               /\ ret[c].err.kind \in {"decode", "read"}
               /\ ~IsAPIError(ret[c].err)
               /\ ret[c].val = IF call[c].op \in {"GetWorkerCount", "GetTotalWorkerCount"}
                               THEN 0 ELSE <<>>
               /\ Len(sent[c]) = 1

C17_Witness ==
    \E c \in Callers :
        /\ Returned(c)
        /\ call[c].op = "ScaleWorkers"
        /\ GotResponse(c)
        /\ outcome[c].StatusCode = 200
        /\ outcome[c].Body = MistypedBody
        /\ outcome[c].read = "ok"
        /\ ret[c].err.kind = "decode"

\* C18: whenever the transport returned a response, its body is closed
\* exactly once before the operation returns, on every exit path (success,
\* API error, body-read failure and decode error of the generic decoder,
\* the 200 and the non-200 path of checkHealth); no body is closed that
\* was not obtained, none twice, and between calls none is open.
C18_BodyClosedOnce ==
    \A c \in Callers :
        /\ closed[c] <= opened[c]
        /\ opened[c] = IF GotResponse(c) THEN 1 ELSE 0
        /\ Returned(c) => closed[c] = opened[c]
        /\ pc[c] = "idle" => opened[c] = 0 /\ closed[c] = 0

C18_Witness ==
    \E c \in Callers :
        /\ Returned(c)
        /\ call[c].op = "GetWorkerStatus"
        /\ GotResponse(c)
        /\ outcome[c].StatusCode = 200
        /\ outcome[c].read = "failed"
        /\ ret[c].err.kind = "read"
        /\ opened[c] = 1
        /\ closed[c] = 1

\* C20: a Config is immutable after construction: NewClient leaves every
\* field of the caller's config as it was passed, for every config value,
\* one with a zero timeout included.
C20_ConfigUnchanged ==
    ctor.name = "NewClient" => config = ctor.arg

\* what one goroutine's call owns
CallState(c) == <<pc[c], call[c], sent[c], opened[c], closed[c], outcome[c], ret[c]>>

\* two completed calls with the same arguments and the same response have
\* the same result and sent the same request
SameInputsSameResult ==
    \A c, d \in ConcurrentCallers :
        (Returned(c) /\ Returned(d) /\ call[c] = call[d] /\ outcome[c] = outcome[d])
            => ret[c] = ret[d] /\ sent[c] = sent[d]

\* a constructed Client is never written
ClientUnwritten == Len(client) = 1 => client' = client

\* a step of one call leaves every other call as it was
NoInterference ==
    \A c, d \in ConcurrentCallers :
        (c # d /\ CallState(c)' # CallState(c)) => CallState(d)' = CallState(d)

\* C19: one Client is safe for concurrent use: under every interleaving of
\* calls issued by two callers on one Client, the client's base URL and
\* timeout are never written after construction, a step of one call changes
\* nothing of the other, and a call's result depends on its own arguments
\* and its own response alone: equal arguments and responses give equal
\* results whatever the other call did meanwhile.
C19_ConcurrentUseSafe ==
    /\ []SameInputsSameResult
    /\ [][ClientUnwritten /\ NoInterference]_vars

\* one call has returned an API error while the other, entered with the
\* same arguments, is still reading a successful response
C19_Witness ==
    /\ pc["c1"] = "done"
    /\ pc["c2"] = "reading"
    /\ call["c1"] = call["c2"]
    /\ call["c1"].op = "PostMessage"
    /\ outcome["c1"].kind = "response"
    /\ outcome["c2"].kind = "response"
    /\ outcome["c1"].StatusCode = 500
    /\ outcome["c2"].StatusCode = 201
    /\ IsAPIError(ret["c1"].err)
    /\ ret["c2"] = NoReturn

====
